------------------------------ MODULE Spec2Model ------------------------------
(***************************************************************************)
(* Smart Expense Tracker: the expense ledger and the budget table kept in  *)
(* SQLite (database.py) and the request handlers and analytics helpers of  *)
(* the Flask application (app.py).                                         *)
(*                                                                         *)
(* Amounts are whole currency units (integers); results the code rounds    *)
(* to two decimals are in hundredths.  Text that the code inspects         *)
(* character by character (an expense description) is a sequence of        *)
(* one-character strings; labels that are only compared (category names,   *)
(* levels) are strings.  A date is the number of its calendar month.       *)
(***************************************************************************)
EXTENDS Integers, Sequences, FiniteSets, TLC

VARIABLES
    expenses,     \* table expenses: the rows, in rowid order
    sqlite_seq,   \* sqlite_sequence.seq of table expenses (0: no such row)
    budgets,      \* table budgets: the set of its rows
    req,          \* the request (or the arguments) of the last call
    resp,         \* what the last call returned
    maxAssigned,  \* history: the largest expense id ever assigned
    epochMax      \* history: the largest expense id assigned since the last
                  \* delete-all (since the start, if there was none)

vars == <<expenses, sqlite_seq, budgets, req, resp, maxAssigned, epochMax>>

history == <<maxAssigned, epochMax>>

(***************************************************************************)
(* Bounds of the model.                                                    *)
(***************************************************************************)
MaxExpenses == 2      \* rows of the ledger in the request-level model
MaxId == 3            \* largest value of the AUTOINCREMENT counter
MaxWords == 3         \* fragments a description is put together from
MaxMonths == 4        \* months of history given to the trend estimator
MaxRows == 4          \* rows of the ledger given to the trend estimator
MaxLedger == 21       \* rows of the ledger given to the anomaly detector
MaxInsightRows == 6   \* month-old rows of the ledger given to the insight generator

(***************************************************************************)
(* Text helpers: str.lower() and the substring test of Python's "in".      *)
(***************************************************************************)
UpperCase ==
    <<"A","B","C","D","E","F","G","H","I","J","K","L","M",
      "N","O","P","Q","R","S","T","U","V","W","X","Y","Z">>

LowerCase ==
    <<"a","b","c","d","e","f","g","h","i","j","k","l","m",
      "n","o","p","q","r","s","t","u","v","w","x","y","z">>

LowerChar(c) ==
    IF \E i \in 1..Len(UpperCase) : UpperCase[i] = c
    THEN LowerCase[CHOOSE i \in 1..Len(UpperCase) : UpperCase[i] = c]
    ELSE c

lower(s) == [i \in 1..Len(s) |-> LowerChar(s[i])]

Contains(s, k) ==
    \E i \in 0..(Len(s) - Len(k)) : SubSeq(s, i + 1, i + Len(k)) = k

(***************************************************************************)
(* app.py: the keyword table, in its declaration order.                    *)
(***************************************************************************)
CATEGORY_KEYWORDS ==
   << [category |-> "food", keywords |-> <<
          <<"r","e","s","t","a","u","r","a","n","t">>,
          <<"c","a","f","e">>,
          <<"f","o","o","d">>,
          <<"p","i","z","z","a">>,
          <<"b","u","r","g","e","r">>,
          <<"l","u","n","c","h">>,
          <<"d","i","n","n","e","r">>,
          <<"b","r","e","a","k","f","a","s","t">>,
          <<"s","t","a","r","b","u","c","k","s">>,
          <<"m","c","d","o","n","a","l","d","s">>,
          <<"s","u","b","w","a","y">>,
          <<"k","f","c">> >>],
      [category |-> "transport", keywords |-> <<
          <<"u","b","e","r">>,
          <<"l","y","f","t">>,
          <<"g","a","s">>,
          <<"f","u","e","l">>,
          <<"p","a","r","k","i","n","g">>,
          <<"t","a","x","i">>,
          <<"m","e","t","r","o">>,
          <<"b","u","s">>,
          <<"t","r","a","i","n">>,
          <<"o","l","a">> >>],
      [category |-> "shopping", keywords |-> <<
          <<"a","m","a","z","o","n">>,
          <<"w","a","l","m","a","r","t">>,
          <<"t","a","r","g","e","t">>,
          <<"m","a","l","l">>,
          <<"s","t","o","r","e">>,
          <<"s","h","o","p">>,
          <<"c","l","o","t","h","i","n","g">>,
          <<"s","h","o","e","s">>,
          <<"f","l","i","p","k","a","r","t">> >>],
      [category |-> "entertainment", keywords |-> <<
          <<"n","e","t","f","l","i","x">>,
          <<"s","p","o","t","i","f","y">>,
          <<"m","o","v","i","e">>,
          <<"c","i","n","e","m","a">>,
          <<"g","a","m","e">>,
          <<"c","o","n","c","e","r","t">>,
          <<"t","h","e","a","t","e","r">>,
          <<"p","r","i","m","e">> >>],
      [category |-> "utilities", keywords |-> <<
          <<"e","l","e","c","t","r","i","c","i","t","y">>,
          <<"w","a","t","e","r">>,
          <<"i","n","t","e","r","n","e","t">>,
          <<"p","h","o","n","e">>,
          <<"w","i","f","i">>,
          <<"b","i","l","l">> >>],
      [category |-> "health", keywords |-> <<
          <<"p","h","a","r","m","a","c","y">>,
          <<"h","o","s","p","i","t","a","l">>,
          <<"d","o","c","t","o","r">>,
          <<"m","e","d","i","c","a","l">>,
          <<"g","y","m">>,
          <<"f","i","t","n","e","s","s">>,
          <<"m","e","d","i","c","i","n","e">> >>],
      [category |-> "education", keywords |-> <<
          <<"b","o","o","k">>,
          <<"c","o","u","r","s","e">>,
          <<"t","u","i","t","i","o","n">>,
          <<"s","c","h","o","o","l">>,
          <<"u","n","i","v","e","r","s","i","t","y">>,
          <<"t","r","a","i","n","i","n","g">>,
          <<"u","d","e","m","y">> >>] >>

(***************************************************************************)
(* app.py smart_categorize: the two nested loops, first match returns.     *)
(***************************************************************************)
RECURSIVE AnyKeyword(_, _, _)
AnyKeyword(keywords, j, text) ==
    IF j > Len(keywords) THEN FALSE
    ELSE IF Contains(text, keywords[j]) THEN TRUE
    ELSE AnyKeyword(keywords, j + 1, text)

RECURSIVE FirstCategory(_, _)
FirstCategory(i, text) ==
    IF i > Len(CATEGORY_KEYWORDS) THEN "other"
    ELSE IF AnyKeyword(CATEGORY_KEYWORDS[i].keywords, 1, text)
         THEN CATEGORY_KEYWORDS[i].category
         ELSE FirstCategory(i + 1, text)

smart_categorize_case_sensitive(description) == FirstCategory(1, description)

smart_categorize(description) == FirstCategory(1, lower(description))

(***************************************************************************)
(* Descriptions given to the categorizer: up to MaxWords fragments put     *)
(* together without a separator, so that a keyword can also arise across   *)
(* two fragments ("b" + "us").                                             *)
(***************************************************************************)
Words ==
    { <<"P","i","z","z","a">>, <<"U","B","E","R">>, <<"g","a","s">>,
      <<"b">>, <<"u","s">>, <<"s","t","o","r","e">>, <<"G","a","m","e">>,
      <<"G","Y","M">>, <<"b","o","o","k">>, <<"x","y","z">>, <<" ">> }

RECURSIVE Flatten(_)
Flatten(ws) == IF ws = <<>> THEN <<>> ELSE Head(ws) \o Flatten(Tail(ws))

Descriptions ==
    UNION { { Flatten(ws) : ws \in [1..n -> Words] } : n \in 0..MaxWords }

NoResp == [op |-> "none"]

InitStore ==
    /\ expenses = <<>>
    /\ sqlite_seq = 0
    /\ budgets = {}
    /\ maxAssigned = 0
    /\ epochMax = 0

InitCategorize ==
    /\ InitStore
    /\ req \in { [op |-> "categorize", description |-> d] : d \in Descriptions }
    /\ resp = NoResp

Categorize ==
    /\ req.op = "categorize"
    /\ resp = NoResp
    /\ resp' = [op |-> "categorize", category |-> smart_categorize(req.description)]
    /\ UNCHANGED <<expenses, sqlite_seq, budgets, req, history>>

NextCategorize == Categorize

SpecCategorize == InitCategorize /\ [][NextCategorize]_vars

(***************************************************************************)
(* C1: categorize lowercases the description and returns the first         *)
(* category, in the order food, transport, shopping, entertainment,        *)
(* utilities, health, education, one of whose keywords occurs in the       *)
(* lowercased description; it returns "other" exactly when no keyword of   *)
(* any category occurs.                                                    *)
(***************************************************************************)
Priority ==
    <<"food", "transport", "shopping", "entertainment",
      "utilities", "health", "education">>

KeywordsOf(c) ==
    LET e == CHOOSE e \in {CATEGORY_KEYWORDS[i] : i \in 1..Len(CATEGORY_KEYWORDS)} :
                 e.category = c
    IN  {e.keywords[j] : j \in 1..Len(e.keywords)}

Occurs(c, text) == \E k \in KeywordsOf(c) : Contains(text, k)

C1_FirstMatchingCategory ==
    resp.op = "categorize" =>
        LET text == lower(req.description)
            hits == {p \in 1..Len(Priority) : Occurs(Priority[p], text)}
        IN  /\ [i \in 1..Len(CATEGORY_KEYWORDS) |-> CATEGORY_KEYWORDS[i].category] = Priority
            /\ (resp.category = "other") <=> (hits = {})
            /\ \A p \in hits :
                   (\A q \in hits : p <= q) => resp.category = Priority[p]

\* "GYMUBER": gym (health) occurs first and uber (transport) second;
\* transport is declared earlier and wins
C1_Witness ==
    /\ resp.op = "categorize"
    /\ req.description = <<"G","Y","M","U","B","E","R">>
    /\ resp.category = "transport"

C1_WitnessOther ==
    /\ resp.op = "categorize"
    /\ req.description = <<"x","y","z">>
    /\ resp.category = "other"

(***************************************************************************)
(* Arithmetic helpers.  The code computes in floating point; the model     *)
(* keeps the exact quotient as a fraction with a positive denominator.     *)
(***************************************************************************)
Max(a, b) == IF a >= b THEN a ELSE b

Min(a, b) == IF a <= b THEN a ELSE b

RECURSIVE SumAmounts(_)
SumAmounts(rows) ==
    IF rows = <<>> THEN 0 ELSE Head(rows).amount + SumAmounts(Tail(rows))

Frac(n, d) == IF d < 0 THEN [n |-> -n, d |-> -d] ELSE [n |-> n, d |-> d]

FracGE(f, k) == f.n >= k * f.d

FracGT(f, k) == f.n > k * f.d

(***************************************************************************)
(* database.py: the ledger store.                                          *)
(***************************************************************************)
CurrentMonth == 2     \* datetime.now(), as a month number

NoDate == 0           \* date=None / start_date=None

Range(s) == {s[i] : i \in 1..Len(s)}

\* id INTEGER PRIMARY KEY without AUTOINCREMENT: one more than the largest
\* rowid in the table
NextRowId_largest_in_table ==
    LET ids == {r.id : r \in Range(expenses)} \cup {0}
    IN  1 + CHOOSE m \in ids : \A i \in ids : i <= m

\* id INTEGER PRIMARY KEY AUTOINCREMENT: one more than the largest rowid the
\* table and sqlite_sequence know of
NextRowId ==
    LET ids == {r.id : r \in Range(expenses)} \cup {sqlite_seq}
    IN  1 + CHOOSE m \in ids : \A i \in ids : i <= m

\* the row INSERT INTO expenses creates (date defaults to now)
db_add_expense(amount, description, category, date, notes) ==
    [id |-> NextRowId, amount |-> amount, description |-> description,
     category |-> category, date |-> IF date = NoDate THEN CurrentMonth ELSE date,
     notes |-> notes, created_at |-> CurrentMonth]

\* WHERE 1=1 [AND category = ?] [AND date >= ?] over a list of rows
Filter(rows, category, start_date) ==
    SelectSeq(rows, LAMBDA r : /\ (category # "" => r.category = category)
                               /\ (start_date # NoDate => r.date >= start_date))

\* ORDER BY date DESC: every listing of the rows by descending date; the
\* order of rows of equal date is not fixed by the query
RECURSIVE DateDescOrders(_)
DateDescOrders(S) ==
    IF S = {} THEN { <<>> }
    ELSE LET newest == {r \in S : \A q \in S : q.date <= r.date}
         IN  UNION { { <<r>> \o o : o \in DateDescOrders(S \ {r}) } : r \in newest }

get_all_expenses(rows) == DateDescOrders(Range(rows))

delete_expense_by_position(rows, expense_id) ==
    IF expense_id \in 1..Len(rows)
    THEN SubSeq(rows, 1, expense_id - 1) \o SubSeq(rows, expense_id + 1, Len(rows))
    ELSE rows

\* DELETE FROM expenses WHERE id = ?
delete_expense(rows, expense_id) == SelectSeq(rows, LAMBDA r : r.id # expense_id)

\* INSERT ... ON CONFLICT(category) DO UPDATE SET amount = ?
set_budget_insert_only(table, category, amount) ==
    table \cup {[category |-> category, amount |-> amount]}

set_budget(table, category, amount) ==
    {b \in table : b.category # category}
        \cup {[category |-> category, amount |-> amount]}

\* SELECT amount FROM budgets WHERE category = ?  (fetchone, or None)
get_budget(table, category) ==
    LET found == {b \in table : b.category = category}
    IN  IF found = {} THEN [found |-> FALSE, amount |-> 0]
        ELSE [found |-> TRUE, amount |-> (CHOOSE b \in found : TRUE).amount]

\* SELECT SUM(amount) ... or 0.0
get_total_spent(rows, category, start_date) ==
    SumAmounts(Filter(rows, category, start_date))

(***************************************************************************)
(* app.py: the request handlers.  A JSON value that should be a number is  *)
(* [kind, val] with kind "number", "text" (a string float() cannot         *)
(* parse), "null" or "missing" (the key is absent); a description is       *)
(* [present, text]; category "" stands for an absent or empty category.    *)
(***************************************************************************)
Number(v) == [kind |-> "number", val |-> v]

Text == [kind |-> "text", val |-> 0]

Null == [kind |-> "null", val |-> 0]

Missing == [kind |-> "missing", val |-> 0]

Given(text) == [present |-> TRUE, text |-> text]

Absent == [present |-> FALSE, text |-> <<>>]

AbsentLabel == [present |-> FALSE, text |-> ""]

Pizza == <<"P","i","z","z","a">>

Amounts == {18}

BudgetAmounts == {-10, 0, 18, 20, 21}

\* the descriptions of the requests, categorized once (smart_categorize is a
\* pure function of the description)
Categorized == [d \in {Pizza} |-> smart_categorize(d)]

Dates == {NoDate, CurrentMonth - 1, CurrentMonth + 1}

AddRequests ==
    { [op |-> "add_expense", amount |-> Number(a), description |-> Given(dc[1]),
       category |-> dc[2], date |-> d,
       notes |-> IF dc[2] = "" /\ d = NoDate THEN "lunch" ELSE ""] :
         a \in Amounts, dc \in {<<Pizza, "">>, <<Pizza, "other">>}, d \in Dates }
    \cup
    { [op |-> "add_expense", amount |-> a, description |-> Given(Pizza),
       category |-> "", date |-> NoDate, notes |-> ""] :
         a \in {Missing, Text, Null, Number(0), Number(-5)} }
    \cup
    { [op |-> "add_expense", amount |-> Number(18), description |-> Absent,
       category |-> "", date |-> NoDate, notes |-> ""] }

BudgetRequests ==
    { [op |-> "set_budget", category |-> Given("food"), amount |-> Number(a)] :
         a \in BudgetAmounts }
    \cup
    { [op |-> "set_budget", category |-> Given("other"), amount |-> Number(45)] }
    \cup
    { [op |-> "set_budget", category |-> Given("food"), amount |-> a] :
         a \in {Missing, Text, Null} }
    \cup
    { [op |-> "set_budget", category |-> AbsentLabel, amount |-> Number(20)] }

NoReq == [op |-> "none"]

\* a response that leaves the store as it is: jsonify({'error': ...}), 4xx,
\* or the 500 of an exception the handler does not catch
Fail(data, status, error) ==
    /\ req' = data
    /\ resp' = [op |-> data.op, status |-> status, error |-> error]
    /\ UNCHANGED <<expenses, sqlite_seq, budgets, history>>

AlertWarningAt == 90

AlertCriticalAt == 100

\* add_expense, "Check budget": the alert level, over the ledger after the insert
budget_alert_current_month(rows, category) ==
    LET budget == get_budget(budgets, category)
    IN  IF budget.found /\ budget.amount # 0
        THEN LET category_total == get_total_spent(rows, category, CurrentMonth)
                 percentage == Frac(category_total * 100, budget.amount)
             IN  IF FracGE(percentage, AlertWarningAt)
                 THEN IF FracGE(percentage, AlertCriticalAt) THEN "critical" ELSE "warning"
                 ELSE "none"
        ELSE "none"

budget_alert(rows, category) ==
    LET budget == get_budget(budgets, category)
    IN  IF budget.found /\ budget.amount # 0
        THEN LET category_total == get_total_spent(rows, category, NoDate)
                 percentage == Frac(category_total * 100, budget.amount)
             IN  IF FracGE(percentage, AlertWarningAt)
                 THEN IF FracGE(percentage, AlertCriticalAt) THEN "critical" ELSE "warning"
                 ELSE "none"
        ELSE "none"

\* data.get('category') or smart_categorize(description)
expense_category_always_derived(data) == Categorized[data.description.text]
expense_category(data) ==
    IF data.category # "" THEN data.category ELSE Categorized[data.description.text]

\* POST /expense
add_expense(data) ==
    IF data.amount.kind = "missing" \/ ~data.description.present
    THEN Fail(data, 400, "Amount and description are required")
    ELSE IF data.amount.kind = "null"
    THEN Fail(data, 500, "TypeError")
    ELSE IF data.amount.kind = "text"
    THEN Fail(data, 400, "Invalid amount format")
    ELSE IF data.amount.val <= 0
    THEN Fail(data, 400, "Amount must be positive")
    ELSE
        LET amount == data.amount.val
            description == data.description.text
            category == expense_category(data)
            expense == db_add_expense(amount, description, category, data.date, data.notes)
            ledger == Append(expenses, expense)
        IN  /\ Len(expenses) < MaxExpenses
            /\ expense.id <= MaxId
            /\ expenses' = ledger
            /\ sqlite_seq' = expense.id
            /\ maxAssigned' = Max(maxAssigned, expense.id)
            /\ epochMax' = Max(epochMax, expense.id)
            /\ req' = data
            /\ resp' = [op |-> "add_expense", status |-> 201, expense |-> expense,
                        auto_categorized |-> (data.category = ""),
                        budget_alert |-> budget_alert(ledger, category)]
            /\ UNCHANGED budgets

AddExpense == \E data \in AddRequests : add_expense(data)

\* DELETE /expense/<int:expense_id>
delete_expense_route(expense_id) ==
    LET remaining == delete_expense(expenses, expense_id)
        rowcount == Len(expenses) - Len(remaining)
        deleted == rowcount > 0
    IN  /\ req' = [op |-> "delete_expense", expense_id |-> expense_id]
        /\ expenses' = remaining
        /\ resp' = IF deleted
                   THEN [op |-> "delete_expense", status |-> 200, deleted_id |-> expense_id]
                   ELSE [op |-> "delete_expense", status |-> 404, error |-> "Expense not found"]
        /\ UNCHANGED <<sqlite_seq, budgets, history>>

DeleteExpense == \E expense_id \in 1..MaxId : delete_expense_route(expense_id)

\* DELETE /expenses/all, database.py delete_all_expenses
delete_all_keep_counter ==
    /\ req' = [op |-> "delete_all"]
    /\ expenses' = <<>>
    /\ resp' = [op |-> "delete_all", status |-> 200, deleted_count |-> Len(expenses)]
    /\ epochMax' = 0
    /\ UNCHANGED <<sqlite_seq, budgets, maxAssigned>>

delete_all ==
    /\ req' = [op |-> "delete_all"]
    /\ expenses' = <<>>
    /\ sqlite_seq' = 0
    /\ resp' = [op |-> "delete_all", status |-> 200, deleted_count |-> Len(expenses)]
    /\ epochMax' = 0
    /\ UNCHANGED <<budgets, maxAssigned>>

DeleteAll == delete_all

\* POST /budget
set_budget_route(data) ==
    IF ~data.category.present \/ data.amount.kind = "missing"
    THEN Fail(data, 400, "Category and amount are required")
    ELSE IF data.amount.kind = "text"
    THEN Fail(data, 500, "ValueError")
    ELSE IF data.amount.kind = "null"
    THEN Fail(data, 500, "TypeError")
    ELSE /\ budgets' = set_budget(budgets, data.category.text, data.amount.val)
         /\ req' = data
         /\ resp' = [op |-> "set_budget", status |-> 200]
         /\ UNCHANGED <<expenses, sqlite_seq, history>>

SetBudget == \E data \in BudgetRequests : set_budget_route(data)

StatusWarningAbove == 80

StatusExceededAbove == 100

budget_status_entry_alert_thresholds(category, budget) ==
    LET spent == get_total_spent(expenses, category, CurrentMonth)
        percentage == IF budget > 0 THEN Frac(spent * 100, budget) ELSE Frac(0, 1)
    IN  [budget |-> budget, spent |-> spent, remaining |-> budget - spent,
         status |-> IF FracGE(percentage, AlertCriticalAt) THEN "exceeded"
                    ELSE IF FracGE(percentage, AlertWarningAt) THEN "warning"
                    ELSE "good"]

\* GET /budget-status: one entry of the status dictionary
budget_status_entry(category, budget) ==
    LET spent == get_total_spent(expenses, category, CurrentMonth)
        percentage == IF budget > 0 THEN Frac(spent * 100, budget) ELSE Frac(0, 1)
    IN  [budget |-> budget, spent |-> spent, remaining |-> budget - spent,
         status |-> IF FracGT(percentage, StatusExceededAbove) THEN "exceeded"
                    ELSE IF FracGT(percentage, StatusWarningAbove) THEN "warning"
                    ELSE "good"]

get_all_budgets == {b.category : b \in budgets}

get_budget_status ==
    /\ req' = [op |-> "budget_status"]
    /\ resp' = IF budgets = {}
               THEN [op |-> "budget_status", status |-> 200, message |-> "No budgets set yet"]
               ELSE [op |-> "budget_status", status |-> 200, month |-> CurrentMonth,
                     budgets |-> [c \in get_all_budgets |->
                                     budget_status_entry(c, get_budget(budgets, c).amount)]]
    /\ UNCHANGED <<expenses, sqlite_seq, budgets, history>>

GetBudgetStatus == get_budget_status

Init ==
    /\ InitStore
    /\ req = NoReq
    /\ resp = NoResp

Next ==
    \/ AddExpense
    \/ DeleteExpense
    \/ DeleteAll
    \/ SetBudget
    \/ GetBudgetStatus

Spec == Init /\ [][Next]_vars

TypeOK ==
    /\ Len(expenses) <= MaxExpenses
    /\ sqlite_seq \in 0..MaxId

(***************************************************************************)
(* Properties of the request-level model (Spec).                           *)
(***************************************************************************)
Ids(rows) == {r.id : r \in Range(rows)}

RECURSIVE Total(_)
Total(S) ==
    IF S = {} THEN 0
    ELSE LET r == CHOOSE r \in S : TRUE IN r.amount + Total(S \ {r})

Added == resp.op = "add_expense" /\ resp.status = 201

(***************************************************************************)
(* C2: the alert add-expense returns is computed from the all-time total   *)
(* of the expense's category, the new expense included, over the           *)
(* category's ceiling: none without a budget, with a ceiling <= 0 or       *)
(* below 90%, "warning" from 90% to below 100%, "critical" from 100%; the  *)
(* expense is in the ledger in each case.                                  *)
(***************************************************************************)
C2_InsertTimeAlert ==
    Added =>
        LET e == resp.expense
            total == Total({r \in Range(expenses) : r.category = e.category})
            ceilings == {b.amount : b \in {b \in budgets : b.category = e.category}}
        IN  /\ Len(expenses) > 0
            /\ expenses[Len(expenses)] = e
            /\ ceilings = {} => resp.budget_alert = "none"
            /\ \A c \in ceilings :
                  resp.budget_alert =
                      IF c <= 0 \/ total * 100 < 90 * c THEN "none"
                      ELSE IF total * 100 < 100 * c THEN "warning"
                      ELSE "critical"

\* 18 of 20 is 90%: a warning, and the expense counted is dated in an earlier month
C2_Witness ==
    /\ Added
    /\ resp.budget_alert = "warning"
    /\ \E r \in Range(expenses) :
          r.category = resp.expense.category /\ r.date < CurrentMonth

C2_WitnessCritical ==
    Added /\ resp.budget_alert = "critical"

C2_WitnessNoCeiling ==
    /\ Added
    /\ \E b \in budgets : b.category = resp.expense.category /\ b.amount < 0
    /\ resp.budget_alert = "none"

(***************************************************************************)
(* C5: deleting an identifier that is not in the ledger reports not-found  *)
(* and leaves the ledger as it was; deleting one that is there reports     *)
(* success and removes that expense and no other.                          *)
(***************************************************************************)
C5_Delete ==
    [][resp'.op = "delete_expense" =>
           LET id == req'.expense_id
           IN  IF id \in Ids(expenses)
               THEN /\ resp'.status = 200
                    /\ resp'.deleted_id = id
                    /\ Len(expenses') = Len(expenses) - 1
                    /\ Range(expenses') = {r \in Range(expenses) : r.id # id}
               ELSE /\ resp'.status = 404
                    /\ expenses' = expenses
                    /\ budgets' = budgets]_vars

\* not found although the ledger holds expenses, one of them at the position
\* the identifier names
C5_Witness ==
    /\ resp.op = "delete_expense"
    /\ resp.status = 404
    /\ Len(expenses) >= req.expense_id

C5_WitnessDeleted ==
    /\ resp.op = "delete_expense"
    /\ resp.status = 200
    /\ expenses # <<>>

(***************************************************************************)
(* C6: after delete-all the ledger is empty, the returned count is the     *)
(* number of expenses there were, the budgets are as before, and the next  *)
(* expense inserted gets identifier 1.                                     *)
(***************************************************************************)
C6_DeleteAll ==
    [][/\ resp'.op = "delete_all" =>
             /\ expenses' = <<>>
             /\ resp'.deleted_count = Len(expenses)
             /\ budgets' = budgets
       /\ (resp.op = "delete_all" /\ Added') => resp'.expense.id = 1]_vars

\* an expense added right after a delete-all that followed larger identifiers
C6_Witness ==
    /\ Added
    /\ req.op = "add_expense"
    /\ resp.expense.id = 1
    /\ maxAssigned > 1
    /\ budgets # {}

(***************************************************************************)
(* C7 as stated: identifiers are unique, and every new expense gets an     *)
(* identifier greater than every identifier assigned before, also before   *)
(* a delete-all.                                                           *)
(***************************************************************************)
C7_NeverReused ==
    [][/\ Cardinality(Ids(expenses')) = Len(expenses')
       /\ Added' /\ expenses' # expenses => resp'.expense.id > maxAssigned]_vars

(***************************************************************************)
(* C7 amended: identifiers are unique in the ledger, and every new expense *)
(* gets an identifier greater than every identifier assigned since the     *)
(* last delete-all (since the start, if there was none), those of          *)
(* expenses deleted one by one included.                                   *)
(***************************************************************************)
C7_UniqueAndIncreasingSinceReset ==
    [][/\ Cardinality(Ids(expenses')) = Len(expenses')
       /\ Added' /\ expenses' # expenses =>
             /\ resp'.expense.id > epochMax
             /\ \A i \in Ids(expenses) : resp'.expense.id > i]_vars

\* the largest identifier was deleted, and the new expense still got a larger one
C7_Witness ==
    /\ Added
    /\ Len(expenses) = 1
    /\ resp.expense.id = MaxId

(***************************************************************************)
(* C8: at most one budget per category; a set-budget stores its amount as  *)
(* the ceiling of its category and changes neither the budget of another   *)
(* category nor an expense; no other operation changes a budget.           *)
(***************************************************************************)
C8_BudgetUpsert ==
    [][/\ \A b1, b2 \in budgets' : b1.category = b2.category => b1 = b2
       /\ (resp'.op = "set_budget" /\ resp'.status = 200) =>
             /\ [category |-> req'.category.text, amount |-> req'.amount.val] \in budgets'
             /\ {b \in budgets' : b.category # req'.category.text}
                   = {b \in budgets : b.category # req'.category.text}
             /\ expenses' = expenses
       /\ resp'.op # "set_budget" => budgets' = budgets]_vars

\* a budget set again for a category, next to the budget of another category
C8_Witness ==
    /\ resp.op = "set_budget"
    /\ resp.status = 200
    /\ budgets = {[category |-> "food", amount |-> 20], [category |-> "other", amount |-> 45]}
    /\ req.category.text = "food"
    /\ expenses # <<>>

(***************************************************************************)
(* C9: an add-expense request without amount or description or with a      *)
(* non-positive or non-numeric amount, and a set-budget request without    *)
(* category or amount or with a non-positive or non-numeric amount, fails  *)
(* and changes neither ledger nor budgets; every stored amount and every   *)
(* stored ceiling is positive.                                             *)
(***************************************************************************)
InvalidAmount(a) == a.kind # "number" \/ a.val <= 0

InvalidRequest(r) ==
    \/ r.op = "add_expense" /\ (InvalidAmount(r.amount) \/ ~r.description.present)
    \/ r.op = "set_budget" /\ (InvalidAmount(r.amount) \/ ~r.category.present)

C9_InvalidInputRejected ==
    [][/\ InvalidRequest(req') =>
             /\ resp'.status \in {400, 500}
             /\ expenses' = expenses
             /\ budgets' = budgets
       /\ \A r \in Range(expenses') : r.amount > 0
       /\ \A b \in budgets' : b.amount > 0]_vars

(***************************************************************************)
(* C10: budget-status puts each budgeted category in one band by           *)
(* spent / ceiling * 100: "good" up to 80, "warning" above 80 up to 100,   *)
(* "exceeded" above 100, and "good" for a ceiling <= 0; at a percentage    *)
(* between 80 and 90 budget-status says "warning" where the insert-time    *)
(* check gives no alert.                                                   *)
(***************************************************************************)
C10_StatusBands ==
    /\ (resp.op = "budget_status" /\ budgets # {}) =>
          /\ DOMAIN resp.budgets = {b.category : b \in budgets}
          /\ \A c \in DOMAIN resp.budgets :
                LET e == resp.budgets[c]
                IN  /\ [category |-> c, amount |-> e.budget] \in budgets
                    /\ e.status =
                          IF e.budget <= 0 \/ e.spent * 100 <= 80 * e.budget THEN "good"
                          ELSE IF e.spent * 100 <= 100 * e.budget THEN "warning"
                          ELSE "exceeded"
    /\ Added =>
          \A b \in budgets :
              LET total == Total({r \in Range(expenses) : r.category = resp.expense.category})
              IN  (/\ b.category = resp.expense.category
                   /\ b.amount > 0
                   /\ total * 100 > 80 * b.amount
                   /\ total * 100 < 90 * b.amount) => resp.budget_alert = "none"

\* 18 of 21 is 85.7%: "warning" in budget-status
C10_Witness ==
    /\ resp.op = "budget_status"
    /\ budgets # {}
    /\ \E c \in DOMAIN resp.budgets :
          LET e == resp.budgets[c]
          IN  /\ e.budget > 0
              /\ e.spent * 100 > 80 * e.budget
              /\ e.spent * 100 < 90 * e.budget
              /\ e.status = "warning"

C10_WitnessBoundaries ==
    /\ resp.op = "budget_status"
    /\ budgets # {}
    /\ \E c \in DOMAIN resp.budgets :
          resp.budgets[c].spent * 100 = 80 * resp.budgets[c].budget /\ resp.budgets[c].budget > 0
    /\ \E c \in DOMAIN resp.budgets : resp.budgets[c].budget <= 0

C10_WitnessExceeded ==
    /\ resp.op = "budget_status"
    /\ budgets # {}
    /\ \E c \in DOMAIN resp.budgets : resp.budgets[c].status = "exceeded"

C10_WitnessFull ==
    /\ resp.op = "budget_status"
    /\ budgets # {}
    /\ \E c \in DOMAIN resp.budgets :
          resp.budgets[c].spent = resp.budgets[c].budget /\ resp.budgets[c].status = "warning"

C10_WitnessInsert ==
    /\ Added
    /\ resp.budget_alert = "none"
    /\ \E b \in budgets :
          /\ b.category = resp.expense.category
          /\ b.amount > 0
          /\ Total({r \in Range(expenses) : r.category = b.category}) * 100 > 80 * b.amount

(***************************************************************************)
(* The trend estimator: database.py get_monthly_spending and app.py        *)
(* predict_next_month_spending.                                            *)
(***************************************************************************)
MonthsOf(rows) == {r.date : r \in Range(rows)}

MonthTotal(rows, month) ==
    SumAmounts(SelectSeq(rows, LAMBDA r : r.date = month))

\* GROUP BY month ORDER BY month ASC
RECURSIVE GroupAscending(_, _)
GroupAscending(rows, months) ==
    IF months = {} THEN <<>>
    ELSE LET m == CHOOSE m \in months : \A x \in months : m <= x
         IN  <<MonthTotal(rows, m)>> \o GroupAscending(rows, months \ {m})

get_monthly_spending_ascending(rows) == GroupAscending(rows, MonthsOf(rows))

\* GROUP BY month ORDER BY month DESC
RECURSIVE GroupDescending(_, _)
GroupDescending(rows, months) ==
    IF months = {} THEN <<>>
    ELSE LET m == CHOOSE m \in months : \A x \in months : x <= m
         IN  <<MonthTotal(rows, m)>> \o GroupDescending(rows, months \ {m})

\* the values of the dictionary month -> total, in its order
get_monthly_spending(rows) == GroupDescending(rows, MonthsOf(rows))

RECURSIVE SumSeq(_)
SumSeq(s) == IF s = <<>> THEN 0 ELSE Head(s) + SumSeq(Tail(s))

\* statistics.mean
mean(values) == Frac(SumSeq(values), Len(values))

FracAdd(f, g) == Frac(f.n * g.d + g.n * f.d, f.d * g.d)

FracSub(f, g) == Frac(f.n * g.d - g.n * f.d, f.d * g.d)

FracMul(f, g) == Frac(f.n * g.n, f.d * g.d)

\* round(x, 2), in hundredths; a value exactly halfway between two
\* hundredths goes to the one or the other, as its floating-point image falls
round2(f) ==
    LET low == (100 * f.n) \div f.d
    IN  {h \in {low, low + 1} : 2 * (100 * f.n - h * f.d) <= f.d
                                /\ 2 * (h * f.d - 100 * f.n) <= f.d}

RecentWindow == 3

TrendWeight == Frac(3, 10)

\* the values predict_next_month_spending can return, in hundredths
predict_next_month_spending(rows) ==
    LET totals == get_monthly_spending(rows)
    IN  IF Len(totals) = 0 THEN {0}
        ELSE IF Len(totals) < 2 THEN {100 * totals[1]}
        ELSE LET avg == mean(totals)
             IN  IF Len(totals) >= 3
                 THEN LET recent_avg == mean(SubSeq(totals, 1, RecentWindow))
                          trend == FracMul(FracSub(recent_avg, avg), TrendWeight)
                      IN  round2(FracAdd(avg, trend))
                 ELSE round2(avg)

\* ledgers of up to MaxRows expenses over MaxMonths months, entered in the
\* order of their dates
PredictAmounts == {1, 50, 100, 200, 300}

Nondecreasing ==
    [n \in 0..MaxRows |->
        {g \in [1..n -> 1..MaxMonths] : \A i \in 1..n : \A j \in i..n : g[i] <= g[j]}]

PredictLedger(f, g) ==
    [i \in DOMAIN f |-> [id |-> i, amount |-> f[i], description |-> Pizza,
                         category |-> "food", date |-> g[i]]]

InitPredict ==
    /\ \E n \in 0..MaxRows :
          \E f \in [1..n -> PredictAmounts] :
             \E g \in Nondecreasing[n] : expenses = PredictLedger(f, g)
    /\ sqlite_seq = Len(expenses)
    /\ maxAssigned = Len(expenses)
    /\ epochMax = Len(expenses)
    /\ budgets = {}
    /\ req = [op |-> "predict"]
    /\ resp = NoResp

PredictSpending ==
    /\ req.op = "predict"
    /\ resp = NoResp
    /\ \E prediction \in predict_next_month_spending(expenses) :
          resp' = [op |-> "predict", prediction |-> prediction]
    /\ UNCHANGED <<expenses, sqlite_seq, budgets, req, history>>

NextPredict == PredictSpending

SpecPredict == InitPredict /\ [][NextPredict]_vars

(***************************************************************************)
(* C3: over the monthly totals, most recent month first, predict returns   *)
(* 0 for none, the total for one, the mean avg of all totals rounded to 2  *)
(* decimals for two, and avg + 0.3 * (recent_avg - avg) rounded to 2       *)
(* decimals for three or more, recent_avg being the mean of the first      *)
(* three; [100,200] gives 150, [300,200,100] gives 200 and                 *)
(* [100,50,200,300] gives 148.75.                                          *)
(***************************************************************************)
\* the total of the k-th most recent month of the ledger
TotalsMostRecentFirst ==
    LET months == {r.date : r \in Range(expenses)}
        MonthAt(k) == CHOOSE m \in months : Cardinality({x \in months : x > m}) = k - 1
    IN  [k \in 1..Cardinality(months) |->
            Total({r \in Range(expenses) : r.date = MonthAt(k)})]

\* h hundredths is x / y rounded to 2 decimals (y > 0)
IsRounded(h, x, y) == 2 * (100 * x - h * y) <= y /\ 2 * (h * y - 100 * x) <= y

C3_Prediction ==
    resp.op = "predict" =>
        LET t == TotalsMostRecentFirst
            n == Len(t)
            S == SumSeq(t)
            h == resp.prediction
        IN  /\ n = 0 => h = 0
            /\ n = 1 => h = 100 * t[1]
            /\ n = 2 => IsRounded(h, S, n)
            \* avg + 3/10 * (R/3 - avg) with avg = S/n is (7*S + n*R) / (10*n)
            /\ n >= 3 => IsRounded(h, 7 * S + n * (t[1] + t[2] + t[3]), 10 * n)
            /\ t = <<100, 200>> => h = 15000
            /\ t = <<300, 200, 100>> => h = 20000
            /\ t = <<100, 50, 200, 300>> => h = 14875

C3_Witness ==
    /\ resp.op = "predict"
    /\ TotalsMostRecentFirst = <<100, 50, 200, 300>>
    /\ resp.prediction = 14875

C3_WitnessTwo ==
    /\ resp.op = "predict"
    /\ TotalsMostRecentFirst = <<100, 200>>
    /\ resp.prediction = 15000
    /\ Len(expenses) = 3

C3_WitnessTie ==
    /\ resp.op = "predict"
    /\ TotalsMostRecentFirst = <<1, 100, 100, 100>>
    /\ resp.prediction = 7277

(***************************************************************************)
(* The anomaly detector: app.py detect_anomalies over the listing that     *)
(* database.py get_all_expenses returns.                                   *)
(***************************************************************************)
MinSample == 10

ScanWindow == 20

Sigmas == 2

\* n * n * (n - 1) times the sample variance of the values (statistics.stdev
\* squared): the sum of the squares of n * (x - mean)
RECURSIVE SumSquares(_, _, _)
SumSquares(values, n, sum) ==
    IF values = <<>> THEN 0
    ELSE (n * Head(values) - sum) * (n * Head(values) - sum)
             + SumSquares(Tail(values), n, sum)

\* stdev > 0 and amount > mean + 2 * stdev, both sides multiplied by n and
\* squared: n * (amount - mean) > 0 and
\* (n * (amount - mean))^2 * (n - 1) > 2^2 * n^2 * (n - 1) * stdev^2
IsAnomaly(amount, n, sum, squares) ==
    /\ squares > 0
    /\ n * amount - sum > 0
    /\ (n * amount - sum) * (n * amount - sum) * (n - 1) > Sigmas * Sigmas * squares

\* the expenses flagged (the reason text is left out)
detect_anomalies_scan_all(listing) ==
    IF Len(listing) < MinSample THEN <<>>
    ELSE LET amounts == [i \in 1..Len(listing) |-> listing[i].amount]
             n == Len(amounts)
             sum == SumSeq(amounts)
             squares == SumSquares(amounts, n, sum)
         IN  SelectSeq(listing, LAMBDA exp : IsAnomaly(exp.amount, n, sum, squares))

detect_anomalies(listing) ==
    IF Len(listing) < MinSample THEN <<>>
    ELSE LET amounts == [i \in 1..Len(listing) |-> listing[i].amount]
             n == Len(amounts)
             sum == SumSeq(amounts)
             squares == SumSquares(amounts, n, sum)
         IN  SelectSeq(SubSeq(listing, 1, Min(ScanWindow, Len(listing))),
                       LAMBDA exp : IsAnomaly(exp.amount, n, sum, squares))

\* ledgers of up to MaxLedger expenses of amount 10, up to two of them of
\* amount 50 instead; entered oldest first, newest first, or oldest first
\* with the two oldest of the same date
AnomalyAmounts == [usual |-> 10, unusual |-> 50]

DateModes == {"oldest first", "newest first", "two oldest tie"}

AnomalyLedger(n, high, mode) ==
    [i \in 1..n |->
        [id |-> i,
         amount |-> IF i \in high THEN AnomalyAmounts.unusual ELSE AnomalyAmounts.usual,
         description |-> Pizza,
         category |-> "food",
         date |-> IF mode = "oldest first" THEN i
                  ELSE IF mode = "newest first" THEN n + 1 - i
                  ELSE Max(i - 1, 1)]]

InitAnomaly ==
    /\ \E n \in 0..MaxLedger :
          \E p \in 0..n :
             \E q \in 0..n :
                \E mode \in DateModes :
                   /\ p <= q
                   /\ expenses = AnomalyLedger(n, {p, q} \ {0}, mode)
    /\ sqlite_seq = Len(expenses)
    /\ maxAssigned = Len(expenses)
    /\ epochMax = Len(expenses)
    /\ budgets = {}
    /\ req = [op |-> "detect_anomalies"]
    /\ resp = NoResp

DetectAnomalies ==
    /\ req.op = "detect_anomalies"
    /\ resp = NoResp
    /\ \E listing \in get_all_expenses(expenses) :
          resp' = [op |-> "detect_anomalies", expenses |-> listing,
                   anomalies |-> detect_anomalies(listing)]
    /\ UNCHANGED <<expenses, sqlite_seq, budgets, req, history>>

NextAnomaly == DetectAnomalies

SpecAnomaly == InitAnomaly /\ [][NextAnomaly]_vars

(***************************************************************************)
(* C4: detect_anomalies returns nothing for a ledger of fewer than 10      *)
(* expenses; otherwise it returns the expenses among the first 20 of the   *)
(* listing by descending date whose amount exceeds mean + 2 * stdev, mean  *)
(* and the (n - 1) standard deviation being those of all amounts in the    *)
(* ledger; an expense after the first 20 is never flagged, and nothing is  *)
(* flagged when the standard deviation is 0.                               *)
(***************************************************************************)
\* n * (n - 1) times the variance, as n * (sum of squares) - (sum)^2
ScaledVariance ==
    LET n == Len(expenses)
        sum == Total(Range(expenses))
        RECURSIVE Squares(_)
        Squares(S) == IF S = {} THEN 0
                      ELSE LET r == CHOOSE r \in S : TRUE
                           IN  r.amount * r.amount + Squares(S \ {r})
    IN  n * Squares(Range(expenses)) - sum * sum

\* amount > mean + 2 * stdev over the whole ledger:
\* (n * amount - sum)^2 * (n - 1) > 4 * n * (n * (n - 1) * variance)
Exceeds(amount) ==
    LET n == Len(expenses)
        sum == Total(Range(expenses))
    IN  /\ n * amount > sum
        /\ (n * amount - sum) * (n * amount - sum) * (n - 1) > 4 * n * ScaledVariance

C4_Anomalies ==
    resp.op = "detect_anomalies" =>
        LET listing == resp.expenses
            found == resp.anomalies
            n == Len(expenses)
            Position(e) == CHOOSE i \in 1..n : listing[i] = e
        IN  /\ Len(listing) = n
            /\ Range(listing) = Range(expenses)
            /\ \A i \in 1..n : \A j \in i..n : listing[i].date >= listing[j].date
            /\ n < 10 => found = <<>>
            /\ ScaledVariance = 0 => found = <<>>
            /\ n >= 10 =>
                  /\ Range(found) = {listing[i] : i \in {i \in 1..n : i <= 20 /\ Exceeds(listing[i].amount)}}
                  /\ \A i \in 1..Len(found) : \A j \in i..Len(found) :
                        i < j => Position(found[i]) < Position(found[j])
            /\ \A i \in 1..n : i > 20 => listing[i] \notin Range(found)

\* 21 expenses: the oldest exceeds the threshold and is not flagged, a newer
\* one exceeds it and is
C4_Witness ==
    /\ resp.op = "detect_anomalies"
    /\ Len(resp.expenses) = 21
    /\ Exceeds(resp.expenses[21].amount)
    /\ resp.expenses[21] \notin Range(resp.anomalies)
    /\ resp.anomalies # <<>>

C4_WitnessSmall ==
    /\ resp.op = "detect_anomalies"
    /\ Len(expenses) = 9
    /\ \E r \in Range(expenses) : r.amount = AnomalyAmounts.unusual
    /\ resp.anomalies = <<>>

C4_WitnessNotExceeding ==
    /\ resp.op = "detect_anomalies"
    /\ Len(expenses) = 10
    /\ \E r \in Range(expenses) : r.amount = AnomalyAmounts.unusual
    /\ resp.anomalies = <<>>

C4_WitnessTie ==
    /\ resp.op = "detect_anomalies"
    /\ Len(expenses) = 21
    /\ resp.expenses[21].id = 2
    /\ resp.expenses[20].amount = AnomalyAmounts.unusual
    /\ resp.expenses[20] \in Range(resp.anomalies)

(***************************************************************************)
(* The insight generator: app.py generate_insights over database.py        *)
(* get_all_expenses and get_spending_by_category.  It compares instants,   *)
(* so in this part a date is an instant counted in days.                   *)
(***************************************************************************)
Today == 45           \* datetime.now(), in days

WeekDays == 7

SavingsSample == 5

\* SELECT category, SUM(amount), COUNT(*) ... GROUP BY category
get_spending_by_category(rows) ==
    [c \in {r.category : r \in Range(rows)} |->
        [total |-> SumAmounts(SelectSeq(rows, LAMBDA r : r.category = c)),
         count |-> Len(SelectSeq(rows, LAMBDA r : r.category = c))]]

\* max(category_totals.items(), key=total): the first of the largest total in
\* the order of the dictionary, ORDER BY total DESC, which leaves the order
\* of equal totals open
TopCategories(category_totals) ==
    {c \in DOMAIN category_totals :
        \A x \in DOMAIN category_totals : category_totals[x].total <= category_totals[c].total}

\* f"{x:.1f}", in tenths; a value exactly halfway goes either way
round1(f) ==
    LET low == (10 * f.n) \div f.d
    IN  {t \in {low, low + 1} : 2 * (10 * f.n - t * f.d) <= f.d
                                /\ 2 * (t * f.d - 10 * f.n) <= f.d}

\* the expenses the weekly trend sums: those later than a week before now
recent_expenses(rows) ==
    SelectSeq(rows, LAMBDA exp : exp.date > Today - WeekDays)

\* the lists generate_insights can return; amounts in hundredths, the
\* percentage in tenths
generate_insights(rows) ==
    IF rows = <<>> THEN { <<>> }
    ELSE
        LET category_totals == get_spending_by_category(rows)
            total_spent == SumAmounts(rows)
            category ==
                IF DOMAIN category_totals # {}
                THEN UNION { { << [type |-> "category_insight", top_name |-> c,
                                   top_amount |-> 100 * category_totals[c].total,
                                   top_percentage |-> p] >> :
                                 p \in round1(Frac(category_totals[c].total * 100, total_spent)) } :
                             c \in TopCategories(category_totals) }
                ELSE { <<>> }
            recent == recent_expenses(rows)
            recent_total == SumAmounts(recent)
            trend ==
                IF recent # <<>>
                THEN { << [type |-> "trend", recent_total |-> 100 * recent_total,
                           daily_avg |-> d] >> : d \in round2(Frac(recent_total, WeekDays)) }
                ELSE { <<>> }
            savings ==
                IF Len(rows) > SavingsSample
                THEN { << [type |-> "savings", savings_potential |-> s] >> :
                         s \in round2(FracMul(FracMul(mean([i \in 1..Len(rows) |-> rows[i].amount]),
                                                      Frac(1, 10)), Frac(30, 1))) }
                ELSE { <<>> }
        IN  { c \o t \o s : c \in category, t \in trend, s \in savings }

\* ledgers of up to MaxInsightRows food expenses of amount 10 dated a month
\* ago, followed by up to two expenses of either category, of amount 10 or
\* 30, dated from eight days ago to tomorrow
InsightDates == {Today - 8, Today - 7, Today - 6, Today, Today + 1}

InsightRows ==
    { [amount |-> a, category |-> c, date |-> d] :
        a \in {10, 30}, c \in {"food", "other"}, d \in InsightDates }

InsightLedger(k, extra) ==
    [i \in 1..(k + Len(extra)) |->
        IF i <= k
        THEN [id |-> i, amount |-> 10, description |-> Pizza,
              category |-> "food", date |-> Today - 30]
        ELSE [id |-> i, amount |-> extra[i - k].amount, description |-> Pizza,
              category |-> extra[i - k].category, date |-> extra[i - k].date]]

InitInsights ==
    /\ \E k \in 0..MaxInsightRows :
          \E m \in 0..2 :
             \E extra \in [1..m -> InsightRows] : expenses = InsightLedger(k, extra)
    /\ sqlite_seq = Len(expenses)
    /\ maxAssigned = Len(expenses)
    /\ epochMax = Len(expenses)
    /\ budgets = {}
    /\ req = [op |-> "insights"]
    /\ resp = NoResp

GenerateInsights ==
    /\ req.op = "insights"
    /\ resp = NoResp
    /\ \E insights \in generate_insights(expenses) :
          resp' = [op |-> "insights", insights |-> insights]
    /\ UNCHANGED <<expenses, sqlite_seq, budgets, req, history>>

NextInsights == GenerateInsights

SpecInsights == InitInsights /\ [][NextInsights]_vars

\* h tenths is x / y rounded to 1 decimal (y > 0)
IsRounded1(t, x, y) == 2 * (10 * x - t * y) <= y /\ 2 * (t * y - 10 * x) <= y

\* the insights are those of the week `week`, in the order top category,
\* weekly trend, savings
InsightsOver(week) ==
    LET ins == resp.insights
        all == Range(expenses)
        total == Total(all)
        Of(c) == Total({r \in all : r.category = c})
        expected == (IF all # {} THEN <<"category_insight">> ELSE <<>>)
                    \o (IF week # {} THEN <<"trend">> ELSE <<>>)
                    \o (IF Len(expenses) > 5 THEN <<"savings">> ELSE <<>>)
    IN  /\ [i \in 1..Len(ins) |-> ins[i].type] = expected
        /\ \A i \in 1..Len(ins) :
              /\ ins[i].type = "category_insight" =>
                    /\ \A r \in all : Of(r.category) <= Of(ins[i].top_name)
                    /\ ins[i].top_amount = 100 * Of(ins[i].top_name)
                    /\ IsRounded1(ins[i].top_percentage, 100 * Of(ins[i].top_name), total)
              /\ ins[i].type = "trend" =>
                    /\ ins[i].recent_total = 100 * Total(week)
                    /\ IsRounded(ins[i].daily_avg, Total(week), 7)
              /\ ins[i].type = "savings" =>
                    IsRounded(ins[i].savings_potential, 3 * total, Len(expenses))
        /\ expenses = <<>> => ins = <<>>

(***************************************************************************)
(* C11: generate_insights returns, in the order top category, weekly       *)
(* trend, savings: the top-category insight iff there is a category        *)
(* aggregate, naming the category of the largest total and its share; the  *)
(* weekly trend iff an expense is dated within the trailing 7 days from    *)
(* now, with the sum of exactly those expenses and that sum over 7; the    *)
(* savings insight iff there are more than 5 expenses, with mean amount    *)
(* * 0.1 * 30; nothing for an empty ledger.                                *)
(***************************************************************************)
C11_Insights ==
    resp.op = "insights" =>
        InsightsOver({r \in Range(expenses) : r.date > Today - 7 /\ r.date <= Today})

\* what the code does: every expense later than a week ago counts, those
\* dated after now included
InsightsFromWeekAgoOnwards ==
    resp.op = "insights" =>
        InsightsOver({r \in Range(expenses) : r.date > Today - 7})

InsightsAllThree ==
    /\ resp.op = "insights"
    /\ Len(resp.insights) = 3
    /\ \E r \in Range(expenses) : r.date = Today - 7

\* the budget-status view reports, for each budgeted category, the total of
\* the category's expenses dated in the months `months`
SpentOver(months) ==
    (resp.op = "budget_status" /\ budgets # {}) =>
        \A c \in DOMAIN resp.budgets :
            resp.budgets[c].spent =
                Total({r \in Range(expenses) : r.category = c /\ r.date \in months})

\* the months of the ledger, the current one included
LedgerMonths == {CurrentMonth} \cup {r.date : r \in Range(expenses)}

(***************************************************************************)
(* C12: in the budget-status view the spent figure of a category is the    *)
(* sum of the amounts of exactly the category's expenses dated in the      *)
(* current calendar month, expenses of an earlier or of a later month not  *)
(* being counted, whereas the alert of add-expense counts the category's   *)
(* expenses of all dates.                                                  *)
(***************************************************************************)
C12_CurrentMonthSpend ==
    /\ SpentOver({CurrentMonth})
    /\ Added =>
          \A b \in {b \in budgets : b.category = resp.expense.category /\ b.amount > 0} :
              (resp.budget_alert # "none") <=>
                  Total({r \in Range(expenses) : r.category = b.category}) * 100
                      >= AlertWarningAt * b.amount

\* what the code does: every expense dated from the first day of the
\* current month onwards counts, later months included
SpentFromMonthStart ==
    SpentOver({d \in LedgerMonths : d >= CurrentMonth})

SpentLaterMonth ==
    /\ resp.op = "budget_status"
    /\ budgets # {}
    /\ \E c \in DOMAIN resp.budgets :
          /\ resp.budgets[c].spent > 0
          /\ \A r \in Range(expenses) : r.category = c => r.date > CurrentMonth

(***************************************************************************)
(* C13: every expense has exactly one category, fixed when it is           *)
(* inserted: the category of the request if one is given and not empty,    *)
(* otherwise what the categorizer gives for the description.  In every     *)
(* step an expense that stays in the ledger keeps its id, amount,          *)
(* description, category, date, notes and created-at, and an expense       *)
(* leaves the ledger only in a delete or a delete-all.                     *)
(***************************************************************************)
C13_ExpensesImmutable ==
    [][ /\ \A r \in Range(expenses) :
              (\E q \in Range(expenses') : q.id = r.id) => r \in Range(expenses')
        /\ (\E r \in Range(expenses) : r \notin Range(expenses'))
              => req'.op \in {"delete_expense", "delete_all"}
        /\ \A q \in Range(expenses') \ Range(expenses) :
              /\ req'.op = "add_expense"
              /\ resp'.expense = q
              /\ q.category = IF req'.category # "" THEN req'.category
                              ELSE Categorized[q.description]
              /\ q.description = req'.description.text
              /\ q.notes = req'.notes
        /\ \A i, j \in 1..Len(expenses') :
              expenses'[i].id = expenses'[j].id => i = j
      ]_vars

\* an expense whose category came from the request, still in the ledger
\* after the delete of another expense
C13_Witness ==
    /\ resp.op = "delete_expense"
    /\ resp.status = 200
    /\ \E r \in Range(expenses) :
          r.category = "other" /\ smart_categorize(r.description) = "food"

\* an expense categorized from its description and carrying notes, still in
\* the ledger after another expense was added and the budget status read
C13_WitnessDerived ==
    /\ resp.op = "budget_status"
    /\ Len(expenses) = 2
    /\ expenses[1].category = "food"
    /\ expenses[1].notes = "lunch"
=============================================================================
